---- MODULE Spec2Model ----
(***************************************************************************)
(* A model of mathe_core_mlib: the experiment folder manager               *)
(* (io/folders.py), the persistence utilities (io/files.py) and the        *)
(* positivity validation of the unit converters (math/converters.py).      *)
(*                                                                         *)
(* Strings and paths are sequences of one-character strings, so that       *)
(* str.capitalize, str.lower, os.path.join and "path + suffix" are         *)
(* computed character by character as Python computes them.                *)
(* The filesystem is a function from absolute paths to nodes, with the     *)
(* POSIX error conventions of mkdir(2), open(2) and rename(2).             *)
(***************************************************************************)
EXTENDS Integers, Sequences, FiniteSets, TLC

VARIABLES fs, ef, args, last, procs, conv, nsaves

vars == <<fs, ef, args, last, procs, conv, nsaves>>

(***************************************************************************)
(* Strings                                                                 *)
(***************************************************************************)
LowerAlpha == <<"a", "b", "c", "d", "e", "f", "g", "h", "i", "j", "k", "l", "m",
                "n", "o", "p", "q", "r", "s", "t", "u", "v", "w", "x", "y", "z">>

UpperAlpha == <<"A", "B", "C", "D", "E", "F", "G", "H", "I", "J", "K", "L", "M",
                "N", "O", "P", "Q", "R", "S", "T", "U", "V", "W", "X", "Y", "Z">>

CharIn(alpha, c) == \E i \in 1..Len(alpha) : alpha[i] = c

CharIndex(alpha, c) == CHOOSE i \in 1..Len(alpha) : alpha[i] = c

upper_char(c) == IF CharIn(LowerAlpha, c) THEN UpperAlpha[CharIndex(LowerAlpha, c)] ELSE c

lower_char(c) == IF CharIn(UpperAlpha, c) THEN LowerAlpha[CharIndex(UpperAlpha, c)] ELSE c

\* str.lower(): every cased character lowered.
lower(s) == IF s = <<>> THEN <<>> ELSE [i \in 1..Len(s) |-> lower_char(s[i])]

\* A plausible slip: only the first character is changed, the rest is kept.
capitalize_first_only(s) == IF s = <<>> THEN <<>> ELSE <<upper_char(s[1])>> \o Tail(s)

\* str.capitalize(): first character uppercased, ALL the others lowercased.
capitalize(s) == IF s = <<>> THEN <<>> ELSE <<upper_char(s[1])>> \o lower(Tail(s))

RECURSIVE str_join(_, _)
\* sep.join(parts)
str_join(sep, parts) ==
    IF parts = <<>> THEN <<>>
    ELSE IF Len(parts) = 1 THEN parts[1]
    ELSE parts[1] \o sep \o str_join(sep, Tail(parts))

(***************************************************************************)
(* Paths (posixpath)                                                       *)
(***************************************************************************)
SEP == "/"

\* The process's working directory.
cwd == <<"/", "w">>

is_abs(p) == p # <<>> /\ p[1] = SEP

\* 1-based index of the last separator of p, 0 when there is none.
rfind_sep(p) ==
    IF \E i \in 1..Len(p) : p[i] = SEP
    THEN CHOOSE i \in 1..Len(p) : p[i] = SEP /\ \A j \in (i+1)..Len(p) : p[j] # SEP
    ELSE 0

\* s.rstrip('/') for an s that holds a character other than '/'.
rstrip_sep(s) ==
    LET n == CHOOSE i \in 1..Len(s) : s[i] # SEP /\ \A j \in (i+1)..Len(s) : s[j] = SEP
    IN  SubSeq(s, 1, n)

\* os.path.split(p)[0], which is os.path.dirname(p)
dirname(p) ==
    LET head == SubSeq(p, 1, rfind_sep(p))
    IN  IF head # <<>> /\ (\E i \in 1..Len(head) : head[i] # SEP) THEN rstrip_sep(head) ELSE head

\* os.path.split(p)[1], which is os.path.basename(p)
basename(p) == SubSeq(p, rfind_sep(p) + 1, Len(p))

\* os.path.join(a, b)
path_join(a, b) ==
    IF is_abs(b) THEN b
    ELSE IF a = <<>> \/ a[Len(a)] = SEP THEN a \o b
    ELSE a \o <<SEP>> \o b

\* os.path.abspath(p), for paths without "." and ".." components: relative
\* paths are taken from the working directory, trailing separators dropped.
abspath(p) ==
    LET q == IF is_abs(p) THEN p ELSE path_join(cwd, p)
    IN  IF \E i \in 1..Len(q) : q[i] # SEP THEN rstrip_sep(q) ELSE <<SEP>>

(***************************************************************************)
(* The filesystem: absolute path -> node                                   *)
(***************************************************************************)
DirNode == [kind |-> "dir"]

FileNode(data) == [kind |-> "file", val |-> data]

\* All proper ancestors of an absolute path, the root included.
ancestors(p) ==
    {IF i = 1 THEN <<SEP>> ELSE SubSeq(p, 1, i - 1) : i \in {j \in 1..Len(p) : p[j] = SEP}} \ {p}

is_dir_at(f, q) == q \in DOMAIN f /\ f[q].kind = "dir"

is_file_at(f, q) == q \in DOMAIN f /\ f[q].kind = "file"

\* The error of resolving the directory part of q: ENOTDIR when a component
\* of the prefix is a regular file, ENOENT when one is missing.
prefix_error(f, q) ==
    IF \E a \in ancestors(q) : is_file_at(f, a) THEN "NotADirectoryError"
    ELSE IF \E a \in ancestors(q) : a \notin DOMAIN f THEN "FileNotFoundError"
    ELSE ""

\* os.path.exists(p): False on any error of stat.
exists(f, p) == p # <<>> /\ abspath(p) \in DOMAIN f /\ prefix_error(f, abspath(p)) = ""

\* os.path.isdir(p)
isdir(f, p) == exists(f, p) /\ f[abspath(p)].kind = "dir"

\* os.mkdir(p): [fs, err]
mkdir(f, p) ==
    LET q == abspath(p) IN
    IF p = <<>> THEN [fs |-> f, err |-> "FileNotFoundError"]
    ELSE IF prefix_error(f, q) # "" THEN [fs |-> f, err |-> prefix_error(f, q)]
    ELSE IF q \in DOMAIN f THEN [fs |-> f, err |-> "FileExistsError"]
    ELSE [fs |-> [k \in DOMAIN f \cup {q} |-> IF k = q THEN DirNode ELSE f[k]], err |-> ""]

RECURSIVE makedirs(_, _, _)
\* os.makedirs(name, exist_ok): [fs, err]. The missing ancestors are made
\* first (a FileExistsError of that recursive call is passed over), then
\* the leaf; the leaf's OSError is raised unless exist_ok and it is a
\* directory.
makedirs(f, name, exist_ok) ==
    LET head == dirname(name)
        tail == basename(name)
        up   == IF head # <<>> /\ tail # <<>> /\ ~exists(f, head)
                THEN makedirs(f, head, exist_ok)
                ELSE [fs |-> f, err |-> ""]
    IN  IF up.err \notin {"", "FileExistsError"} THEN up
        ELSE LET m == mkdir(up.fs, name)
             IN  IF m.err # "" /\ exist_ok /\ isdir(up.fs, name)
                 THEN [fs |-> up.fs, err |-> ""]
                 ELSE m

\* open(p, 'w') then write(data): [fs, err]
open_write(f, p, data) ==
    LET q == abspath(p) IN
    IF p = <<>> THEN [fs |-> f, err |-> "FileNotFoundError"]
    ELSE IF prefix_error(f, q) # "" THEN [fs |-> f, err |-> prefix_error(f, q)]
    ELSE IF is_dir_at(f, q) \/ p[Len(p)] = SEP THEN [fs |-> f, err |-> "IsADirectoryError"]
    ELSE [fs |-> [k \in DOMAIN f \cup {q} |-> IF k = q THEN FileNode(data) ELSE f[k]],
          err |-> ""]

\* open(p, 'r') then read(): [val, err]
open_read(f, p) ==
    LET q == abspath(p) IN
    IF p = <<>> THEN [val |-> <<>>, err |-> "FileNotFoundError"]
    ELSE IF prefix_error(f, q) # "" THEN [val |-> <<>>, err |-> prefix_error(f, q)]
    ELSE IF q \notin DOMAIN f THEN [val |-> <<>>, err |-> "FileNotFoundError"]
    ELSE IF is_dir_at(f, q) THEN [val |-> <<>>, err |-> "IsADirectoryError"]
    ELSE [val |-> f[q].val, err |-> ""]

has_prefix(k, p) == Len(k) > Len(p) /\ SubSeq(k, 1, Len(p)) = p /\ k[Len(p) + 1] = SEP

\* Whether the directory at q holds anything.
non_empty(f, q) == \E k \in DOMAIN f : has_prefix(k, q)

\* The error of os.rename(src, dst) for a directory src, "" when it succeeds.
\* os_ok is the operating system's own verdict (permissions, a busy
\* directory, a full disk): the rename fails when it is FALSE.
rename_error(f, src, dst, os_ok) ==
    LET s == abspath(src)
        d == abspath(dst)
    IN  IF ~os_ok THEN "OSError"
        ELSE IF ~exists(f, src) THEN "FileNotFoundError"
        ELSE IF prefix_error(f, d) # "" THEN prefix_error(f, d)
        ELSE IF is_file_at(f, d) THEN "NotADirectoryError"
        ELSE IF is_dir_at(f, d) /\ non_empty(f, d) THEN "OSError"
        ELSE ""

\* The filesystem after a successful os.rename(src, dst): the directory and
\* everything below it is found under dst, and nothing is left under src.
rename(f, src, dst) ==
    LET s == abspath(src)
        d == abspath(dst)
        moved(k) == k = s \/ has_prefix(k, s)
        to(k) == IF moved(k) THEN d \o SubSeq(k, Len(s) + 1, Len(k)) ELSE k
        kept == {k \in DOMAIN f : ~moved(k) /\ k # d}
        from(n) == CHOOSE k \in DOMAIN f : (moved(k) \/ k \in kept) /\ to(k) = n
    IN  [n \in {to(k) : k \in {j \in DOMAIN f : moved(j)} \cup kept} |-> f[from(n)]]

(***************************************************************************)
(* io/folders.py: ExperimentFolder                                         *)
(***************************************************************************)
\* Values of datetime.now().strftime('%Y-%m-%d_%H-%M-%S'): two seconds.
T1 == <<"2", "0", "2", "3", "-", "1", "0", "-", "2", "7", "_", "1", "4", "-", "3", "0", "-", "0", "0">>

T2 == <<"2", "0", "2", "3", "-", "1", "0", "-", "2", "7", "_", "1", "4", "-", "3", "0", "-", "0", "1">>

Timestamps == {T1, T2}

\* The second in which the one entity of the sequential runs is constructed.
Now == T1

\* Tags: the default 'sim'.
Tags == {<<"s", "i", "m">>}

\* Versions: the default '' and 'v1'.
Versions == {<<>>, <<"v", "1">>}

BasePath == <<"/", "r">>

\* Status labels given to finish(): the default, the two of the docstring in
\* upper case, a mixed-case one and the empty string.
Statuses == {<<"s", "u", "c", "c", "e", "s", "s">>, <<"S", "U", "C", "C", "E", "S", "S">>,
             <<"F", "A", "I", "L">>, <<"t", "i", "m", "e", "O", "u", "t">>, <<>>}

\* Info messages given to finish(), the default '' included.
Messages == {<<>>, <<"o", "k">>}

\* Contents given to save_text().
Contents == {<<"e", "r", "r">>}

SuccessTxt == <<"S", "u", "c", "c", "e", "s", "s", ".", "t", "x", "t">>

ErrorTxt == <<"E", "r", "r", "o", "r", ".", "t", "x", "t">>

\* File names given to save_text() and get_path().
FileNames == {SuccessTxt}

\* An external file that exists, and one that does not.
CfgPath == <<"/", "i", "n", "/", "c", "f", "g">>

MissingPath == <<"/", "i", "n", "/", "n", "o">>

SrcPaths == {CfgPath, MissingPath}

\* new_name of copy_file(): None (here the empty string: both are falsy) or a name.
NewNames == {<<>>, ErrorTxt}

\* The disk before the program runs: the working directory and the inputs.
BaseFS ==
    [k \in {<<SEP>>, cwd, <<"/", "i", "n">>, CfgPath} |->
        IF k = CfgPath THEN FileNode(<<"c", "f", "g">>) ELSE DirNode]

with_dir(f, q) == [k \in DOMAIN f \cup {q} |-> IF k = q THEN DirNode ELSE f[k]]

\* Two disks: the base directory missing, and present with a directory of
\* another run already at one of the computed names.
InitFS ==
    {BaseFS,
     with_dir(with_dir(BaseFS, BasePath),
              path_join(BasePath, T1 \o <<"_">> \o <<"s", "i", "m">>))}

NoEntity ==
    [constructed |-> FALSE, timestamp |-> <<>>, folder_name |-> <<>>, path |-> <<>>,
     finalized |-> FALSE]

\* The arguments of the construction, and the paths on disk before it.
NoArgs == [base_path |-> <<>>, tag |-> <<>>, version |-> <<>>, disk0 |-> {}]

\* The record of a call: the operation, its two arguments, how it ended
\* ("ok", or the error raised), what it returned, and how the call before
\* it ended when that was a finish() ("" when it was not).
Call(op, a, b, res, ret) ==
    [op |-> op, a |-> a, b |-> b, res |-> res, ret |-> ret,
     prev_finish |-> IF last.op = "finish" THEN last.res ELSE ""]

NoCall ==
    [op |-> "none", a |-> <<>>, b |-> <<>>, res |-> "", ret |-> <<>>, prev_finish |-> ""]

\* A slip: the version is appended even when it is empty.
folder_name_always_version(timestamp, version, tag) ==
    str_join(<<"_">>, <<timestamp, version, tag>>)

\* The folder name: timestamp, the version if not empty, the tag.
folder_name_of(timestamp, version, tag) ==
    LET folder_name_parts ==
            <<timestamp>> \o (IF version # <<>> THEN <<version>> ELSE <<>>) \o <<tag>>
    IN  str_join(<<"_">>, folder_name_parts)

\* A slip: the directory made with exist_ok=True.
init_exist_ok_true == TRUE

\* __init__, line 30: exist_ok=False
init_exist_ok == FALSE

\* __init__: the directory is made at once, exist_ok=False.
Construct(base_path, tag, version, timestamp) ==
    /\ ~ef.constructed
    /\ LET folder_name == folder_name_of(timestamp, version, tag)
           path == path_join(base_path, folder_name)
           made == makedirs(fs, path, init_exist_ok)
       IN  /\ fs' = made.fs
           /\ ef' = IF made.err = ""
                    THEN [constructed |-> TRUE, timestamp |-> timestamp,
                          folder_name |-> folder_name, path |-> path, finalized |-> FALSE]
                    ELSE ef
           /\ args' = [base_path |-> base_path, tag |-> tag, version |-> version,
                       disk0 |-> DOMAIN fs]
           /\ last' = Call("init", base_path, tag, IF made.err = "" THEN "ok" ELSE made.err, path)
    /\ UNCHANGED <<procs, conv, nsaves>>

GetFolderName ==
    /\ ef.constructed
    /\ last' = Call("get_folder_name", <<>>, <<>>, "ok", ef.folder_name)
    /\ UNCHANGED <<fs, ef, args, procs, conv, nsaves>>

get_path(e, filename) == path_join(e.path, filename)

GetPath(filename) ==
    /\ ef.constructed
    /\ last' = Call("get_path", filename, <<>>, "ok", get_path(ef, filename))
    /\ UNCHANGED <<fs, ef, args, procs, conv, nsaves>>

\* shutil.copyfile(src, dst): [fs, err]
copyfile(f, src, dst) ==
    LET r == open_read(f, src)
    IN  IF r.err # "" THEN [fs |-> f, err |-> r.err] ELSE open_write(f, dst, r.val)

CopyFile(src_path, new_name) ==
    /\ ef.constructed
    /\ LET filename == IF new_name # <<>> THEN new_name ELSE basename(src_path)
           dst_path == get_path(ef, filename)
           c == IF ~exists(fs, src_path)
                THEN [fs |-> fs, err |-> "FileNotFoundError"]
                ELSE copyfile(fs, src_path, dst_path)
       IN  /\ fs' = c.fs
           /\ last' = Call("copy_file", src_path, new_name,
                           IF c.err = "" THEN "ok" ELSE c.err, dst_path)
    /\ UNCHANGED <<ef, args, procs, conv, nsaves>>

\* save_text: [fs, err]
save_text(f, e, filename, content) == open_write(f, get_path(e, filename), content)

SaveText(filename, content) ==
    /\ ef.constructed
    /\ LET w == save_text(fs, ef, filename, content)
       IN  /\ fs' = w.fs
           /\ last' = Call("save_text", filename, content,
                           IF w.err = "" THEN "ok" ELSE w.err, get_path(ef, filename))
    /\ UNCHANGED <<ef, args, procs, conv, nsaves>>

\* A slip: the guard of finish() dropped.
never_finalized(e) == FALSE

\* finish, line 74: a finalized entity returns at once.
already_finalized(e) == e.finalized

\* A slip: the comparison made without lower().
log_name_case_sensitive(status) ==
    IF status = <<"s", "u", "c", "c", "e", "s", "s">> THEN SuccessTxt ELSE ErrorTxt

\* finish, line 82
log_name(status) ==
    IF lower(status) = <<"s", "u", "c", "c", "e", "s", "s">> THEN SuccessTxt ELSE ErrorTxt

\* finish, line 77
suffix_of(status) == <<"_">> \o capitalize(status)

\* A slip: the flag set although the rename failed.
after_failed_rename_finalized(e) == [e EXCEPT !.finalized = TRUE]

\* finish, lines 89-90: the OSError is printed; the entity is as it was.
after_failed_rename(e) == e

\* A slip: the flag set, the path left at the old location.
after_rename_stale_path(e, new_path) == [e EXCEPT !.finalized = TRUE]

\* finish, lines 87-88
after_rename(e, new_path) == [e EXCEPT !.path = new_path, !.finalized = TRUE]

\* finish(status, info_msg); rename_ok is the operating system's verdict on
\* the rename. The message is written first, outside the try: an error of
\* that write reaches the caller, and the rename is not attempted.
Finish(status, info_msg, rename_ok) ==
    /\ ef.constructed
    /\ IF already_finalized(ef)
       THEN /\ last' = Call("finish", status, info_msg, "noop", ef.path)
            /\ UNCHANGED <<fs, ef>>
       ELSE LET new_path == ef.path \o suffix_of(status)
                w == IF info_msg # <<>>
                     THEN save_text(fs, ef, log_name(status), info_msg)
                     ELSE [fs |-> fs, err |-> ""]
                err == rename_error(w.fs, ef.path, new_path, rename_ok)
            IN  IF w.err # ""
                THEN /\ last' = Call("finish", status, info_msg, w.err, ef.path)
                     /\ UNCHANGED <<fs, ef>>
                ELSE IF err = ""
                THEN /\ fs' = rename(w.fs, ef.path, new_path)
                     /\ ef' = after_rename(ef, new_path)
                     /\ last' = Call("finish", status, info_msg, "renamed", ef.path)
                ELSE /\ fs' = w.fs
                     /\ ef' = after_failed_rename(ef)
                     /\ last' = Call("finish", status, info_msg, "rename_failed", ef.path)
    /\ UNCHANGED <<args, procs, conv, nsaves>>

Init ==
    /\ fs \in InitFS
    /\ ef = NoEntity
    /\ args = NoArgs
    /\ last = NoCall
    /\ procs = <<>>
    /\ conv = <<>>
    /\ nsaves = 0

Next ==
    \/ \E tag \in Tags, version \in Versions : Construct(BasePath, tag, version, Now)
    \/ GetFolderName
    \/ \E filename \in FileNames \cup {<<>>} : GetPath(filename)
    \/ \E src_path \in SrcPaths, new_name \in NewNames : CopyFile(src_path, new_name)
    \/ \E filename \in FileNames, content \in Contents : SaveText(filename, content)
    \/ \E status \in Statuses, info_msg \in Messages, rename_ok \in BOOLEAN :
          Finish(status, info_msg, rename_ok)

Spec == Init /\ [][Next]_vars

(***************************************************************************)
(* Two constructions side by side (threads or processes): each system call *)
(* of __init__ is a step of its own, so the two interleave between the     *)
(* existence checks and the mkdir calls of os.makedirs.                    *)
(***************************************************************************)
Procs == {1, 2}

NoProc ==
    [pc |-> "start", timestamp |-> <<>>, folder_name |-> <<>>, path |-> <<>>,
     stack |-> <<>>, err |-> ""]

\* A call of os.makedirs in progress: its name, and whether it is still to
\* look at its parent ("check") or about to make its own directory ("mkdir").
Frame(name, phase) == [name |-> name, phase |-> phase]

Top(st) == st[Len(st)]

Pop(st) == SubSeq(st, 1, Len(st) - 1)

\* __init__, lines 18-27: the clock is read and the name and path computed.
RaceStart(p, version, timestamp) ==
    /\ procs[p].pc = "start"
    /\ LET folder_name == folder_name_of(timestamp, version, <<"s", "i", "m">>)
           path == path_join(BasePath, folder_name)
       IN  procs' = [procs EXCEPT ![p] =
                [pc |-> "makedirs", timestamp |-> timestamp, folder_name |-> folder_name,
                 path |-> path, stack |-> <<Frame(path, "check")>>, err |-> ""]]
    /\ UNCHANGED <<fs, ef, args, last, conv, nsaves>>

\* os.makedirs: the parent is looked at; a missing one is made first, by a
\* recursive call.
RaceCheck(p) ==
    /\ procs[p].pc = "makedirs"
    /\ Top(procs[p].stack).phase = "check"
    /\ LET st == procs[p].stack
           name == Top(st).name
           head == dirname(name)
           tail == basename(name)
           here == Pop(st) \o <<Frame(name, "mkdir")>>
       IN  procs' = [procs EXCEPT ![p].stack =
                IF head # <<>> /\ tail # <<>> /\ ~exists(fs, head)
                THEN here \o <<Frame(head, "check")>>
                ELSE here]
    /\ UNCHANGED <<fs, ef, args, last, conv, nsaves>>

\* os.makedirs: mkdir(name). In a recursive call a FileExistsError is passed
\* over by the caller; any other error, and any error of the outermost call
\* unless exist_ok and the name is a directory, ends the construction.
RaceMkdir(p) ==
    /\ procs[p].pc = "makedirs"
    /\ Top(procs[p].stack).phase = "mkdir"
    /\ LET st == procs[p].stack
           name == Top(st).name
           m == mkdir(fs, name)
           passed == \/ m.err = ""
                     \/ m.err = "FileExistsError" /\ Len(st) > 1
                     \/ m.err # "" /\ init_exist_ok /\ isdir(fs, name)
       IN  /\ fs' = m.fs
           /\ procs' = [procs EXCEPT ![p] =
                IF ~passed THEN [@ EXCEPT !.pc = "failed", !.err = m.err, !.stack = <<>>]
                ELSE IF Len(st) = 1 THEN [@ EXCEPT !.pc = "made", !.stack = <<>>]
                ELSE [@ EXCEPT !.stack = Pop(st)]]
    /\ UNCHANGED <<ef, args, last, conv, nsaves>>

\* __init__, line 31: the construction has succeeded.
RaceFinalize(p) ==
    /\ procs[p].pc = "made"
    /\ procs' = [procs EXCEPT ![p].pc = "done"]
    /\ UNCHANGED <<fs, ef, args, last, conv, nsaves>>

InitRace ==
    /\ fs \in InitFS
    /\ ef = NoEntity
    /\ args = [NoArgs EXCEPT !.disk0 = DOMAIN fs]
    /\ last = NoCall
    /\ procs = [p \in Procs |-> NoProc]
    /\ conv = <<>>
    /\ nsaves = 0

NextRace ==
    \E p \in Procs :
        \/ \E version \in Versions, timestamp \in Timestamps : RaceStart(p, version, timestamp)
        \/ RaceCheck(p)
        \/ RaceMkdir(p)
        \/ RaceFinalize(p)

SpecRace == InitRace /\ [][NextRace]_vars

Ended(p) == procs[p].pc \in {"done", "failed"}

\* C4: of two constructions with the same base path, tag, version and
\* second, in any interleaving, at most one succeeds; when the directory was
\* not on disk before, exactly one succeeds and the other fails with
\* FileExistsError; a construction never succeeds on a directory that was
\* there before; and the step in which a construction fails changes nothing
\* on disk.
C4_ExclusiveCreation ==
    /\ [](\A p \in Procs :
            /\ (procs[p].pc = "done") =>
                  (isdir(fs, procs[p].path) /\ abspath(procs[p].path) \notin args.disk0)
            /\ \A q \in Procs \ {p} :
                  (Ended(p) /\ Ended(q) /\ procs[p].path = procs[q].path) =>
                      /\ ~(procs[p].pc = "done" /\ procs[q].pc = "done")
                      /\ (abspath(procs[p].path) \notin args.disk0) =>
                            /\ procs[p].pc = "done" \/ procs[q].pc = "done"
                            /\ (procs[p].pc = "failed") => (procs[p].err = "FileExistsError"))
    /\ [][\A p \in Procs : (procs[p].pc # "failed" /\ procs'[p].pc = "failed") => fs' = fs]_vars

\* Both constructions computed the same path, in a base directory that was
\* missing: the first owns the directory, the second failed on it.
C4_Witness ==
    /\ procs[1].pc = "done" /\ procs[2].pc = "failed" /\ procs[2].err = "FileExistsError"
    /\ procs[1].path = procs[2].path
    /\ BasePath \notin args.disk0
    /\ isdir(fs, procs[1].path)

(***************************************************************************)
(* Properties of ExperimentFolder, checked under Spec                      *)
(***************************************************************************)
\* What finish() may change: the entity's path and flag, and the disk (the
\* directory's name, the files in it and their contents).
FolderUnchanged == ef'.path = ef.path /\ ef'.finalized = ef.finalized /\ fs' = fs

\* The node at a path, AbsentNode when there is none.
AbsentNode == [kind |-> "absent"]

NodeAt(f, p) == IF exists(f, p) THEN f[abspath(p)] ELSE AbsentNode

\* C1 as stated: of any two consecutive finish() calls, also when the rename
\* of the first failed, the second leaves path, flag and disk as they were.
C1_SecondFinishAlwaysNoOp ==
    [][(last.op = "finish" /\ last'.op = "finish") => FolderUnchanged]_vars

\* C1 amended: of two consecutive finish() calls of which the first left the
\* entity finalized (its rename succeeded, or the entity was finalized
\* before), the second leaves path, flag and disk as they were.
C1_SecondFinishNoOpOnceFinalized ==
    [][(last.op = "finish" /\ last.res \in {"renamed", "noop"} /\ last'.op = "finish")
          => (FolderUnchanged /\ last'.res = "noop")]_vars

\* A second finish() right after one that renamed the directory.
C1_Witness ==
    /\ last.op = "finish" /\ last.prev_finish = "renamed" /\ last.res = "noop"
    /\ ef.finalized /\ isdir(fs, ef.path)

\* The directories on disk that were not there before the construction.
CreatedDirs == {k \in DOMAIN fs : fs[k].kind = "dir" /\ k \notin args.disk0}

\* C2 as stated: after a successful construction a directory exists at the
\* entity's path, and no directory this entity created exists anywhere else.
C2_OnlyDirectoryIsAtPath ==
    ef.constructed => (isdir(fs, ef.path) /\ CreatedDirs \subseteq {abspath(ef.path)})

\* C2 amended: after a successful construction a directory exists at the
\* entity's path, and the only other directories this entity created are
\* ancestors of that path (the missing part of the base path, which
\* os.makedirs creates too and finish() leaves where it is); once renamed,
\* nothing is left at the old location.
C2_DirectoryAtPathOrAncestor ==
    ef.constructed =>
        /\ isdir(fs, ef.path)
        /\ CreatedDirs \subseteq {abspath(ef.path)} \cup ancestors(abspath(ef.path))
        /\ abspath(ef.path) \in CreatedDirs
        /\ (last.op = "finish" /\ last.res = "renamed") => ~exists(fs, last.ret)

\* A finalized entity whose construction also created the base directory.
C2_Witness ==
    /\ ef.constructed /\ ef.finalized /\ last.op = "finish" /\ last.res = "renamed"
    /\ isdir(fs, ef.path) /\ BasePath \in CreatedDirs

FirstUpperRestKept(s) == IF s = <<>> THEN <<>> ELSE <<upper_char(s[1])>> \o Tail(s)

\* The status label with its first character uppercased and the rest lowercased.
FirstUpperRestLower(s) ==
    IF s = <<>> THEN <<>>
    ELSE [i \in 1..Len(s) |-> IF i = 1 THEN upper_char(s[i]) ELSE lower_char(s[i])]

\* C5 as stated: a successful finish(s) renames the folder to its previous
\* path, '_' and s with only its first character uppercased, the rest as given.
C5_SuffixRestUnchanged ==
    [][(last'.op = "finish" /\ last'.res = "renamed") =>
          ef'.path = ef.path \o <<"_">> \o FirstUpperRestKept(last'.a)]_vars

\* C5 amended: a successful finish(s) renames the folder to its previous
\* path, '_' and s with its first character uppercased and all the others
\* lowercased ('FAIL' gives '_Fail', 'timeOut' gives '_Timeout'); the
\* directory is then at that path and no longer at the previous one.
C5_SuffixCapitalized ==
    [][(last'.op = "finish" /\ last'.res = "renamed") =>
          /\ ef'.path = ef.path \o <<"_">> \o FirstUpperRestLower(last'.a)
          /\ isdir(fs', ef'.path)
          /\ ~exists(fs', ef.path)]_vars

\* finish('timeOut') succeeded: the directory's name ends in _Timeout.
C5_Witness ==
    /\ last.op = "finish" /\ last.res = "renamed"
    /\ last.a = <<"t", "i", "m", "e", "O", "u", "t">>
    /\ ef.path = last.ret \o <<"_", "T", "i", "m", "e", "o", "u", "t">>
    /\ isdir(fs, ef.path)

\* Whether a status equals 'success' whatever the case of its letters.
IsSuccess(status) ==
    /\ Len(status) = 7
    /\ \A i \in 1..7 : lower_char(status[i]) = <<"s", "u", "c", "c", "e", "s", "s">>[i]

\* C6: finish(status, msg) of a not yet finalized folder writes a non-empty
\* msg to Success.txt when status is 'success' in any casing and to Error.txt
\* otherwise, leaves the other of the two files alone, writes neither when
\* msg is empty, and writes before it renames: the file is in the directory
\* at the entity's path after the call, renamed or not.
C6_MessageFileBeforeRename ==
    [][(last'.op = "finish" /\ last'.res \in {"renamed", "rename_failed"}) =>
          LET msg == last'.b
              mine == IF IsSuccess(last'.a) THEN SuccessTxt ELSE ErrorTxt
              other == IF IsSuccess(last'.a) THEN ErrorTxt ELSE SuccessTxt
          IN  /\ NodeAt(fs', path_join(ef'.path, other)) = NodeAt(fs, path_join(ef.path, other))
              /\ NodeAt(fs', path_join(ef'.path, mine)) =
                    IF msg # <<>> THEN FileNode(msg) ELSE NodeAt(fs, path_join(ef.path, mine))
              /\ (last'.res = "renamed") =>
                    /\ ef'.path # ef.path
                    /\ ~exists(fs', path_join(ef.path, mine))
                    /\ ~exists(fs', path_join(ef.path, other))]_vars

\* finish('SUCCESS', 'ok') renamed the directory: Success.txt holds 'ok' in
\* the directory at the new path, and there is no Error.txt.
C6_Witness ==
    /\ last.op = "finish" /\ last.res = "renamed"
    /\ last.a = <<"S", "U", "C", "C", "E", "S", "S">> /\ last.b = <<"o", "k">>
    /\ ef.path # last.ret
    /\ NodeAt(fs, path_join(ef.path, SuccessTxt)) = FileNode(<<"o", "k">>)
    /\ ~exists(fs, path_join(ef.path, ErrorTxt))

\* The name the construction composes: timestamp, version if not empty, tag.
ComposedName ==
    IF args.version = <<>> THEN ef.timestamp \o <<"_">> \o args.tag
    ELSE ef.timestamp \o <<"_">> \o args.version \o <<"_">> \o args.tag

\* C10: the entity's folder name is the name composed at construction, and
\* get_folder_name returns it; the last component of the path is that name
\* while the flag is false, and that name followed by a status suffix once
\* it is true, when the reported name is no longer a directory on disk.
C10_FolderNameAndPath ==
    ef.constructed =>
        /\ ef.folder_name = ComposedName
        /\ (last.op = "get_folder_name") => (last.ret = ComposedName)
        /\ dirname(ef.path) = args.base_path
        /\ ~ef.finalized => basename(ef.path) = ef.folder_name
        /\ ef.finalized =>
              /\ \E s \in Statuses :
                     basename(ef.path) = ef.folder_name \o <<"_">> \o FirstUpperRestLower(s)
              /\ basename(ef.path) # ef.folder_name
              /\ ~exists(fs, path_join(args.base_path, ef.folder_name))
              /\ isdir(fs, ef.path)

\* get_folder_name called on a finalized entity that has a version: what it
\* returns is not the name of the directory any more.
C10_Witness ==
    /\ ef.constructed /\ ef.finalized /\ args.version # <<>>
    /\ last.op = "get_folder_name" /\ last.ret = ef.folder_name
    /\ last.ret # basename(ef.path)

(***************************************************************************)
(* math/converters.py: the positivity validation                           *)
(***************************************************************************)
\* Longest array given to a conversion.
MaxLen == 2

\* A float: not-a-number, or a number (here a small integer).
NaN == [nan |-> TRUE, v |-> 0]

Num(x) == [nan |-> FALSE, v |-> x]

Floats == {NaN} \cup {Num(x) : x \in {-1, 0, 1}}

\* What np.asanyarray(value, dtype=float) makes of the argument: a
\* zero-dimensional array of a scalar, a one-dimensional one of a list.
Arrays ==
    {[ndim |-> 0, elems |-> <<x>>] : x \in Floats}
        \cup {[ndim |-> 1, elems |-> e] : e \in UNION {[1..n -> Floats] : n \in 0..MaxLen}}

ErrorModes == {"raise", "warn", "ignore"}

CheckedFunctions ==
    {"lin2db", "watt2dbm", "watt2db", "freq_Hz_to_wavelength_m", "wavelength_m_to_freq_Hz",
     "wavelength_nm_to_freq_Hz", "freq_Hz_to_wavelength_nm"}

\* x <= 0 in IEEE arithmetic: every comparison with not-a-number is False.
le_zero(x) == ~x.nan /\ x.v <= 0

\* np.any(value <= 0)
any_le_zero(value) == \E i \in 1..Len(value.elems) : le_zero(value.elems[i])

\* _validate_positive(value, mode, context): what it raises and warns.
validate_positive(value, mode, context) ==
    IF mode = "ignore" THEN [raised |-> "", warned |-> ""]
    ELSE IF any_le_zero(value)
         THEN IF mode = "raise" THEN [raised |-> context, warned |-> ""]
              ELSE IF mode = "warn" THEN [raised |-> "", warned |-> context]
              ELSE [raised |-> "", warned |-> ""]
         ELSE [raised |-> "", warned |-> ""]

\* 10 * np.log10(x) (+ 30.0), by the kind of float it gives.
log10_of(x) ==
    IF x.nan THEN "nan" ELSE IF x.v > 0 THEN "finite" ELSE IF x.v = 0 THEN "-inf" ELSE "nan"

\* SPEED_OF_LIGHT / x (with the factors 1e9, 1e-9), by the kind of float it gives.
c_over(x) ==
    IF x.nan THEN "nan" ELSE IF x.v > 0 THEN "finite" ELSE IF x.v = 0 THEN "inf" ELSE "negative"

\* The context each function gives to _validate_positive: watt2db calls lin2db.
context_of(fn) == IF fn = "watt2db" THEN "lin2db" ELSE fn

\* result.item() if result.ndim == 0 else result
result_of(fn, value) ==
    LET r == [i \in 1..Len(value.elems) |->
                 IF fn \in {"lin2db", "watt2dbm", "watt2db"}
                 THEN log10_of(value.elems[i]) ELSE c_over(value.elems[i])]
    IN  IF value.ndim = 0 THEN [scalar |-> TRUE, elems |-> <<r[1]>>]
        ELSE [scalar |-> FALSE, elems |-> IF value.elems = <<>> THEN <<>> ELSE r]

NoResult == [scalar |-> FALSE, elems |-> <<>>]

\* A call of one of the seven checked functions on the input of this run.
Convert(fn, mode) ==
    /\ conv.pc = "input"
    /\ LET v == validate_positive(conv.value, mode, context_of(fn))
       IN  conv' = [conv EXCEPT !.pc = "returned", !.fn = fn, !.mode = mode,
                                !.raised = v.raised, !.warned = v.warned,
                                !.result = IF v.raised # "" THEN NoResult
                                           ELSE result_of(fn, conv.value)]
    /\ UNCHANGED <<fs, ef, args, last, procs, nsaves>>

InitConv ==
    /\ fs = BaseFS
    /\ ef = NoEntity
    /\ args = NoArgs
    /\ last = NoCall
    /\ procs = <<>>
    /\ nsaves = 0
    /\ \E value \in Arrays :
          conv = [pc |-> "input", value |-> value, fn |-> "", mode |-> "",
                  raised |-> "", warned |-> "", result |-> NoResult]

NextConv == \E fn \in CheckedFunctions, mode \in ErrorModes : Convert(fn, mode)

SpecConv == InitConv /\ [][NextConv]_vars

\* x > 0 does not hold: x is negative, zero or not-a-number.
NotStrictlyPositive(x) == x.nan \/ x.v <= 0

\* C7: a checked conversion called with mode 'raise' fails if and only if
\* an element of its input is not strictly greater than zero (negative,
\* zero or not-a-number).
C7_RaiseIffNotPositive ==
    (conv.pc = "returned" /\ conv.mode = "raise") =>
        ((conv.raised # "") <=>
            (\E i \in 1..Len(conv.value.elems) : NotStrictlyPositive(conv.value.elems[i])))

(***************************************************************************)
(* io/files.py: load and save in three formats                             *)
(***************************************************************************)
\* Most save calls in one run.
MaxSaves == 2

\* Python values: the payload of a Structured Document.
PyNone == [t |-> "NoneType"]

PyBool(b) == [t |-> "bool", v |-> b]

PyInt(n) == [t |-> "int", v |-> n]

PyStr(x) == [t |-> "str", v |-> x]

PyList(xs) == [t |-> "list", v |-> xs]

PyDict(f) == [t |-> "dict", v |-> f]

\* Documents (a tuple: values of different types form no set): the empty one, a flat one, and one with a sequence and a
\* nested mapping that holds a non-ASCII string.
Docs ==
   <<PyDict([k \in {} |-> PyNone]),
     PyDict([k \in {"a", "b"} |-> IF k = "a" THEN PyInt(1) ELSE PyStr("x")]),
     PyDict([k \in {"a", "b"} |->
                IF k = "a" THEN PyList(<<PyBool(TRUE), PyNone, PyInt(2)>>)
                ELSE PyDict([j \in {"c"} |-> PyStr("é")])])>>

RECURSIVE json_dump(_)
\* json.dump(data, f, indent=indent, ensure_ascii=False): the JSON text, as
\* the tree of JSON values it spells.
json_dump(x) ==
    CASE x.t = "dict" -> [t |-> "object", v |-> [k \in DOMAIN x.v |-> json_dump(x.v[k])]]
      [] x.t = "list" -> [t |-> "array", v |-> [i \in DOMAIN x.v |-> json_dump(x.v[i])]]
      [] x.t = "str" -> [t |-> "string", v |-> x.v]
      [] x.t = "int" -> [t |-> "number", v |-> x.v]
      [] x.t = "bool" -> [t |-> IF x.v THEN "true" ELSE "false"]
      [] x.t = "NoneType" -> [t |-> "null"]

JsonKinds == {"object", "array", "string", "number", "true", "false", "null"}

RECURSIVE json_load(_)
\* json.load(f) of a JSON text
json_load(j) ==
    CASE j.t = "object" -> PyDict([k \in DOMAIN j.v |-> json_load(j.v[k])])
      [] j.t = "array" -> PyList([i \in DOMAIN j.v |-> json_load(j.v[i])])
      [] j.t = "string" -> PyStr(j.v)
      [] j.t = "number" -> PyInt(j.v)
      [] j.t = "true" -> PyBool(TRUE)
      [] j.t = "false" -> PyBool(FALSE)
      [] j.t = "null" -> PyNone

RECURSIVE yaml_safe_dump(_)
\* yaml.safe_dump(data, f, sort_keys=False): the YAML text, as its node graph.
yaml_safe_dump(x) ==
    CASE x.t = "dict" -> [t |-> "mapping", v |-> [k \in DOMAIN x.v |-> yaml_safe_dump(x.v[k])]]
      [] x.t = "list" -> [t |-> "sequence", v |-> [i \in DOMAIN x.v |-> yaml_safe_dump(x.v[i])]]
      [] x.t = "str" -> [t |-> "scalar", tag |-> "str", v |-> x.v]
      [] x.t = "int" -> [t |-> "scalar", tag |-> "int", v |-> x.v]
      [] x.t = "bool" -> [t |-> "scalar", tag |-> "bool", v |-> x.v]
      [] x.t = "NoneType" -> [t |-> "scalar", tag |-> "null", v |-> "null"]

YamlKinds == {"mapping", "sequence", "scalar"}

RECURSIVE yaml_safe_load(_)
\* yaml.safe_load(file) of a YAML text
yaml_safe_load(y) ==
    CASE y.t = "mapping" -> PyDict([k \in DOMAIN y.v |-> yaml_safe_load(y.v[k])])
      [] y.t = "sequence" -> PyList([i \in DOMAIN y.v |-> yaml_safe_load(y.v[i])])
      [] y.t = "scalar" /\ y.tag = "str" -> PyStr(y.v)
      [] y.t = "scalar" /\ y.tag = "int" -> PyInt(y.v)
      [] y.t = "scalar" /\ y.tag = "bool" -> PyBool(y.v)
      [] y.t = "scalar" /\ y.tag = "null" -> PyNone

RECURSIVE pickle_dump(_)
\* pickle.dump(data, f): the opcodes that rebuild the object.
pickle_dump(x) ==
    CASE x.t = "dict" -> [t |-> "SETITEMS", v |-> [k \in DOMAIN x.v |-> pickle_dump(x.v[k])]]
      [] x.t = "list" -> [t |-> "APPENDS", v |-> [i \in DOMAIN x.v |-> pickle_dump(x.v[i])]]
      [] x.t = "str" -> [t |-> "BINUNICODE", v |-> x.v]
      [] x.t = "int" -> [t |-> "BININT", v |-> x.v]
      [] x.t = "bool" -> [t |-> IF x.v THEN "NEWTRUE" ELSE "NEWFALSE"]
      [] x.t = "NoneType" -> [t |-> "NONE"]

PickleKinds == {"SETITEMS", "APPENDS", "BINUNICODE", "BININT", "NEWTRUE", "NEWFALSE", "NONE"}

RECURSIVE pickle_load(_)
\* pickle.load(f)
pickle_load(o) ==
    CASE o.t = "SETITEMS" -> PyDict([k \in DOMAIN o.v |-> pickle_load(o.v[k])])
      [] o.t = "APPENDS" -> PyList([i \in DOMAIN o.v |-> pickle_load(o.v[i])])
      [] o.t = "BINUNICODE" -> PyStr(o.v)
      [] o.t = "BININT" -> PyInt(o.v)
      [] o.t = "NEWTRUE" -> PyBool(TRUE)
      [] o.t = "NEWFALSE" -> PyBool(FALSE)
      [] o.t = "NONE" -> PyNone

\* A slip: the parent directories made with exist_ok=False.
files_exist_ok_false == FALSE

\* save_json, save_yaml, save_pickle: os.makedirs(..., exist_ok=True)
files_exist_ok == TRUE

\* The save functions: the parent directories, then open(file_path, 'w') and
\* the dump: [fs, err].
save_with(f, content, file_path) ==
    LET d == makedirs(f, dirname(abspath(file_path)), files_exist_ok)
    IN  IF d.err # "" THEN d ELSE open_write(d.fs, file_path, content)

save_json(f, data, file_path) == save_with(f, json_dump(data), file_path)

save_yaml(f, data, file_path) == save_with(f, yaml_safe_dump(data), file_path)

save_pickle(f, data, file_path) == save_with(f, pickle_dump(data), file_path)

Loaded(doc) == [ret |-> doc, err |-> ""]

Raised(err) == [ret |-> PyNone, err |-> err]

\* load_json: the existence check, then open and json.load.
load_json(f, file_path) ==
    IF ~exists(f, file_path) THEN Raised("FileNotFoundError")
    ELSE LET r == open_read(f, file_path)
         IN  IF r.err # "" THEN Raised(r.err)
             ELSE IF r.val.t \in JsonKinds THEN Loaded(json_load(r.val))
             ELSE Raised("JSONDecodeError")

\* load_yaml: open and yaml.safe_load, with no existence check before. A
\* JSON text is a YAML text too.
load_yaml(f, file_path) ==
    LET r == open_read(f, file_path)
    IN  IF r.err # "" THEN Raised(r.err)
        ELSE IF r.val.t \in YamlKinds THEN Loaded(yaml_safe_load(r.val))
        ELSE IF r.val.t \in JsonKinds THEN Loaded(json_load(r.val))
        ELSE Raised("YAMLError")

\* load_pickle: the existence check, then open and pickle.load.
load_pickle(f, file_path) ==
    IF ~exists(f, file_path) THEN Raised("FileNotFoundError")
    ELSE LET r == open_read(f, file_path)
         IN  IF r.err # "" THEN Raised(r.err)
             ELSE IF r.val.t \in PickleKinds THEN Loaded(pickle_load(r.val))
             ELSE Raised("UnpicklingError")

\* The disk before the program runs: the working directory, a directory d
\* and a text file f in it.
FilesFS ==
    [k \in {<<SEP>>, cwd, <<"/", "w", "/", "d">>, <<"/", "w", "/", "f">>} |->
        IF k = <<"/", "w", "/", "f">> THEN FileNode([t |-> "text"]) ELSE DirNode]

\* File paths: relative to the working directory; in an existing directory;
\* below two missing directories; below a regular file.
RelPath == <<"x">>

InDirPath == <<"/", "w", "/", "d", "/", "x">>

DeepPath == <<"/", "w", "/", "n", "/", "m", "/", "x">>

UnderFilePath == <<"/", "w", "/", "f", "/", "x">>

FilePaths == {RelPath, InDirPath, DeepPath, UnderFilePath}

Saved(op, data, file_path, s) ==
    /\ nsaves < MaxSaves
    /\ nsaves' = nsaves + 1
    /\ fs' = s.fs
    /\ last' = Call(op, file_path, data, IF s.err = "" THEN "ok" ELSE s.err, PyNone)
    /\ UNCHANGED <<ef, args, procs, conv>>

LoadedBy(op, file_path, l) ==
    /\ last' = Call(op, file_path, PyNone, IF l.err = "" THEN "ok" ELSE l.err, l.ret)
    /\ UNCHANGED <<fs, ef, args, procs, conv, nsaves>>

SaveJson(data, file_path) == Saved("save_json", data, file_path, save_json(fs, data, file_path))

SaveYaml(data, file_path) == Saved("save_yaml", data, file_path, save_yaml(fs, data, file_path))

SavePickle(data, file_path) ==
    Saved("save_pickle", data, file_path, save_pickle(fs, data, file_path))

LoadJson(file_path) == LoadedBy("load_json", file_path, load_json(fs, file_path))

LoadYaml(file_path) == LoadedBy("load_yaml", file_path, load_yaml(fs, file_path))

LoadPickle(file_path) == LoadedBy("load_pickle", file_path, load_pickle(fs, file_path))

InitFiles ==
    /\ fs = FilesFS
    /\ ef = NoEntity
    /\ args = NoArgs
    /\ last = NoCall
    /\ procs = <<>>
    /\ conv = <<>>
    /\ nsaves = 0

NextFiles ==
    \E file_path \in FilePaths :
        \/ \E i \in DOMAIN Docs : SaveJson(Docs[i], file_path)
        \/ \E i \in DOMAIN Docs : SaveYaml(Docs[i], file_path)
        \/ \E i \in DOMAIN Docs : SavePickle(Docs[i], file_path)
        \/ LoadJson(file_path)
        \/ LoadYaml(file_path)
        \/ LoadPickle(file_path)

SpecFiles == InitFiles /\ [][NextFiles]_vars

SaveOps == {"save_json", "save_yaml", "save_pickle"}

LoadOps == {"load_json", "load_yaml", "load_pickle"}

\* The load of the format a save wrote.
LoadBack(op, f, file_path) ==
    CASE op = "save_json" -> load_json(f, file_path)
      [] op = "save_yaml" -> load_yaml(f, file_path)
      [] op = "save_pickle" -> load_pickle(f, file_path)

C9_MissingIsNotFound ==
    [][(last'.op \in LoadOps) =>
          /\ fs' = fs
          /\ ~exists(fs, last'.a) => last'.res = "FileNotFoundError"]_vars

====
